---- MODULE Spec2Model ----
(***************************************************************************)
(* etlgcp: facades over BigQuery (bq.py), Cloud Storage (storage.py) and   *)
(* Pub/Sub (publisher.py, subscriber.py).  Every facade call is a small    *)
(* program of remote calls; each remote call is one atomic step whose      *)
(* outcome (success or an exception class) is chosen by the remote         *)
(* service, constrained by the service's state.  The retry recursion of    *)
(* the code is the counter frame[c].retry.                                 *)
(***************************************************************************)
EXTENDS Naturals, Sequences, FiniteSets

VARIABLES
    bq,       \* warehouse: [dataset, table : BOOLEAN, jobs : set of job ids]
    gcs,      \* object store: [bucket : BOOLEAN, blobs : subset of {"in","out"}, local : BOOLEAN]
    pubsub,   \* message bus: [topic, sub : BOOLEAN, receiving : set of callers]
    uuid,     \* number of uuid4 values drawn so far (each draw is fresh)
    frame,    \* per caller: the running facade call (operation, position, arguments, retry)
    result,   \* per caller: what the call returned, or that it raised
    hist,     \* per caller: what the current call did so far (attempts, sleeps, log lines)
    ncalls,   \* per caller: top-level calls started
    config,   \* what the constructors stored: [logger, labels, timeout]
    locator,  \* a call of extractBucketFile: its argument and what it returned
    schema    \* a call of build_schema_from_dict: its argument and what it returned

facade == <<bq, gcs, pubsub, uuid, frame, result, hist, ncalls, config>>
vars == <<facade, locator, schema>>

\* Bounds of the model.
MaxCalls == 2     \* top-level calls per caller
MaxPolls == 5     \* failed get_table polls per call of createwait_table
MaxContainerLen == 3   \* characters of the container name of a locator
MaxItemLen == 2        \* characters of the item path of a locator
MaxFields == 2         \* entries of a schema dictionary, at each level

\* "timeout=180" of Etlbq.__init__, and the label sets an instance is built with.
DefaultTimeout == 180
LabelSets == {"{}", "labels"}

Callers == {"c1", "c2"}
Main == "c1"

WarehouseJobs == {"insert_file", "run_queryjob", "run_extractjob"}
StorageRetryOps ==
    {"move_file_gs", "copy_file_gs", "download_file_from_gs",
     "upload_file_to_gs", "delete_file_from_gs"}
StorageSingleOps == {"file_exist_gs", "rename_gs", "list_files_from_gs"}
CreationOps == {"createwait_table", "publish", "subscribe"}
RetryOps == {"createwait_table", "publish"} \cup WarehouseJobs \cup StorageRetryOps
Ops == RetryOps \cup StorageSingleOps \cup {"subscribe"}

\* The operations that take a delete flag; copy_file_gs passes delete=False.
\* The operations with a source and a destination path, and the objects the
\* paths may name: gsPathOut may be the path gsPathIn is.
TransferOps == {"move_file_gs", "copy_file_gs"}
Objects == {"in", "out"}

\* Faulty variant of DeleteFlagOps: copy_file_gs hands a delete flag on as well.
DeleteFlagOps_WithCopy == {"move_file_gs", "upload_file_to_gs", "copy_file_gs"}

DeleteFlagOps == {"move_file_gs", "upload_file_to_gs"}
\* The operations whose string argument (gs path, message) the model varies.
StrArgOps == StorageRetryOps \cup StorageSingleOps \cup {"publish"}

\* "if retry < 3" (bq.py, storage.py), "if retry < 2" (delete_file_from_gs, publish).
Ceiling(o) == IF o \in {"delete_file_from_gs", "publish"} THEN 2 ELSE 3

\* Faulty variant of Delay: one delay for every operation.
Delay_Uniform(o) == 3

\* time.sleep(3) in storage.py, time.sleep(5) in bq.py, time.sleep(10) in publisher.py.
Delay(o) ==
    IF o \in StorageRetryOps THEN 3
    ELSE IF o = "publish" THEN 10
    ELSE 5

\* Faulty variant of Start: publish goes straight to the publish remote call.
Start_PublishFirst(o) ==
    CASE o = "createwait_table" -> "create_table"
      [] o \in WarehouseJobs -> "submit"
      [] o \in {"move_file_gs", "copy_file_gs"} -> "get_bucket_in"
      [] o = "publish" -> "publish"
      [] o = "subscribe" -> "get_subscription"
      [] OTHER -> "get_bucket"

\* The first remote call of each operation: where a (re-)invocation starts.
Start(o) ==
    CASE o = "createwait_table" -> "create_table"
      [] o \in WarehouseJobs -> "submit"
      [] o \in {"move_file_gs", "copy_file_gs"} -> "get_bucket_in"
      [] o = "publish" -> "get_topic"
      [] o = "subscribe" -> "get_subscription"
      [] OTHER -> "get_bucket"

\* Return values.  job = 0 and errors = "None" stand for Python's None.
Val(v) == [val |-> v, job |-> 0, errors |-> "None"]
Pair(j, e) == [val |-> "pair", job |-> j, errors |-> e]
Running == Val("running")
Raised == Val("raised")

\* The failure sentinel of each operation: (None, None) for the warehouse jobs,
\* None for list_files_from_gs and subscribe, False otherwise.
Sentinel(o) ==
    IF o \in WarehouseJobs THEN Pair(0, "None")
    ELSE IF o \in {"list_files_from_gs", "subscribe"} THEN Val("None")
    ELSE Val("False")

IdleFrame ==
    [op |-> "none", pc |-> "idle", retry |-> 0, delete |-> FALSE, argOk |-> TRUE, job |-> 0,
     dest |-> "out"]

NoHist ==
    [attempts |-> 0, ends |-> <<>>, sleeps |-> <<>>, log |-> <<>>, faults |-> 0,
     polls |-> 0, resCalls |-> 0, existed |-> FALSE, created |-> FALSE,
     confirmed |-> FALSE, submits |-> <<>>, mark |-> 0,
     usedGlobal |-> FALSE, ensured |-> FALSE, srcBefore |-> FALSE, wrote |-> FALSE]

\* Whether the resource a creation operation ensures exists now.
\* No call of extractBucketFile under way.
NoLocator == [pc |-> "none", container |-> <<>>, item |-> <<>>, bucket |-> <<>>, filePath |-> <<>>]

\* No call of build_schema_from_dict under way.
NoSchema == [pc |-> "none", schema_dict |-> <<>>, schema_bq |-> <<>>, log |-> <<>>]

ResourceExists(o) ==
    CASE o = "createwait_table" -> bq.table
      [] o = "publish" -> pubsub.topic
      [] o = "subscribe" -> pubsub.sub
      [] OTHER -> FALSE

Init ==
    /\ bq \in [dataset : BOOLEAN, table : {FALSE}, jobs : {{}}]
    /\ gcs \in [bucket : BOOLEAN, blobs : {{"in"}}, local : {TRUE}]
    /\ pubsub = [topic |-> FALSE, sub |-> FALSE, receiving |-> {}]
    /\ uuid = 0
    /\ frame = [c \in Callers |-> IdleFrame]
    /\ result = [c \in Callers |-> Running]
    /\ hist = [c \in Callers |-> NoHist]
    /\ ncalls = [c \in Callers |-> 0]
    /\ config \in [logger : {"logger"}, labels : LabelSets, timeout : {DefaultTimeout}]
    /\ locator = NoLocator
    /\ schema = NoSchema

----------------------------------------------------------------------------
\* Bookkeeping shared by the steps.

\* Faulty variant of SelfUnassigned: an operation rewrites the label set.
SelfUnassigned_LabelsEdited == config' = [config EXCEPT !.labels = "edited"]

\* No method body assigns to an attribute of self, and publish and subscribe
\* have no instance: logger, labels and timeout are only read.
SelfUnassigned == config' = config

At(c, ops, pc) == frame[c].op \in ops /\ frame[c].pc = pc

Log(h, sev) == [h EXCEPT !.log = Append(@, sev)]
\* "Error" is any exception that is neither NotFound nor AlreadyExists/Conflict
\* nor one of the classes named apart: a fault of the service or of the network.
Fault(h) == [h EXCEPT !.faults = @ + 1]
\* The current attempt ends: "ok", "Timeout", or the class of the exception.
End(h, how) == [(IF how = "Error" THEN Fault(h) ELSE h) EXCEPT !.ends = Append(@, how)]
OnResource(h) == [h EXCEPT !.resCalls = @ + 1]

Update(c, f, h, r) ==
    /\ frame' = [frame EXCEPT ![c] = f]
    /\ hist' = [hist EXCEPT ![c] = h]
    /\ result' = [result EXCEPT ![c] = r]

Goto(c, pc, h) == Update(c, [frame[c] EXCEPT !.pc = pc], h, result[c])
Return(c, h, r) == Update(c, [frame[c] EXCEPT !.pc = "done"], h, r)
\* An exception no handler of the facade catches: it reaches the caller.
Escape(c, h, how) == Return(c, End(h, how), Raised)

\* A top-level call: the caller leaves retry at its default 0.
Invoke(c, o, del, ok, dst) ==
    /\ frame[c].pc \in {"idle", "done"}
    /\ ncalls[c] < MaxCalls
    /\ del => o \in DeleteFlagOps
    /\ ~ok => o \in StrArgOps
    /\ dst # "out" => o \in TransferOps
    /\ frame' = [frame EXCEPT ![c] =
            [op |-> o, pc |-> Start(o), retry |-> 0, delete |-> del, argOk |-> ok, job |-> 0,
             dest |-> dst]]
    /\ hist' = [hist EXCEPT ![c] = [NoHist EXCEPT !.attempts = 1, !.existed = ResourceExists(o),
                                                     !.srcBefore = "in" \in gcs.blobs]]
    /\ result' = [result EXCEPT ![c] = Running]
    /\ ncalls' = [ncalls EXCEPT ![c] = @ + 1]
    /\ UNCHANGED <<bq, gcs, pubsub, uuid>>
    /\ SelfUnassigned
    /\ UNCHANGED <<locator, schema>>

Call(c) ==
    \E o \in Ops, del \in BOOLEAN, ok \in BOOLEAN, dst \in Objects : Invoke(c, o, del, ok, dst)

----------------------------------------------------------------------------
\* The handlers of the retry convention.

\* Faulty variant of except_NotFound: the handler returns without its log line.
except_NotFound_Silent(c, h) ==
    Return(c, End(h, "NotFound"), Val("False"))

\* "except NotFound:" of move_file_gs, download_file_from_gs, delete_file_from_gs.
except_NotFound(c, h) ==
    Return(c, End(Log(h, "WARNING"), "NotFound"), Val("False"))

\* Faulty variant of Reinvoke: the counter passed on skips a value.
Reinvoke_SkipsOne(c, h) ==
    Update(c,
           [frame[c] EXCEPT !.retry = @ + 2, !.pc = Start(frame[c].op), !.job = 0],
           [h EXCEPT !.sleeps = Append(@, Delay(frame[c].op)), !.attempts = @ + 1,
                     !.mark = Len(h.log), !.ensured = FALSE],
           result[c])

\* The recursion "return self.op(..., retry=retry + 1)" after log and sleep.
Reinvoke(c, h) ==
    Update(c,
           [frame[c] EXCEPT !.retry = @ + 1, !.pc = Start(frame[c].op), !.job = 0],
           [h EXCEPT !.sleeps = Append(@, Delay(frame[c].op)), !.attempts = @ + 1,
                     !.mark = Len(h.log), !.ensured = FALSE],
           result[c])

\* "except Exception as e:" of the operations of bq.py and storage.py that retry.
except_Exception(c, h, exc) ==
    IF frame[c].retry < Ceiling(frame[c].op)
    THEN Reinvoke(c, End(Log(h, "WARNING"), exc))
    ELSE Return(c, End(Log(h, "ERROR"), exc), Sentinel(frame[c].op))

\* Faulty variant of except_Single: the single-attempt operations retry as the others do.
except_Single_Retrying(c, h, exc) == except_Exception(c, h, exc)

\* "except Exception as e:" of the operations that make one attempt only.
except_Single(c, h, exc) ==
    Return(c, End(Log(h, "ERROR"), exc), Sentinel(frame[c].op))

\* Dispatch of an exception raised inside the try block of a storage operation
\* that has an "except NotFound" clause.
StorageRaise(c, h, exc) ==
    IF exc = "NotFound" THEN except_NotFound(c, h) ELSE except_Exception(c, h, exc)

----------------------------------------------------------------------------
\* publisher.py

get_topic_outcomes == (IF pubsub.topic THEN {"ok"} ELSE {"NotFound"}) \cup {"Error"}
create_topic_outcomes == (IF pubsub.topic THEN {"AlreadyExists"} ELSE {"ok"}) \cup {"Error"}
publish_outcomes == {"ok", "Error"}

\* publisher_client.get_topic(topic_path); the bare "except:" leads to create_topic.
publish_get_topic(c) ==
    /\ At(c, {"publish"}, "get_topic")
    /\ \E out \in get_topic_outcomes :
         LET h == OnResource(hist[c]) IN
         IF out = "ok"
         THEN Goto(c, "publish", [Log(h, "DEBUG") EXCEPT !.confirmed = hist[c].created,
                                                         !.ensured = TRUE])
         ELSE Goto(c, "create_topic", IF out = "Error" THEN Fault(h) ELSE h)
    /\ UNCHANGED <<bq, gcs, pubsub, uuid, ncalls>>
    /\ SelfUnassigned
    /\ UNCHANGED <<locator, schema>>

\* publisher_client.create_topic(topic_path), inside the except clause: whatever
\* it raises leaves publish.
publish_create_topic(c) ==
    /\ At(c, {"publish"}, "create_topic")
    /\ \E out \in create_topic_outcomes :
         LET h == OnResource(hist[c]) IN
         IF out = "ok"
         THEN /\ pubsub' = [pubsub EXCEPT !.topic = TRUE]
              /\ Goto(c, "publish", [Log(h, "DEBUG") EXCEPT !.created = TRUE, !.ensured = TRUE])
         ELSE /\ UNCHANGED pubsub
              /\ Escape(c, h, out)
    /\ UNCHANGED <<bq, gcs, uuid, ncalls>>
    /\ SelfUnassigned
    /\ UNCHANGED <<locator, schema>>

\* "except Exception as e:" of publish: ERROR on every failed attempt, then
\* sleep and recurse while retry < 2.
publish_except(c, h, exc) ==
    IF frame[c].retry < Ceiling("publish")
    THEN Reinvoke(c, End(Log(h, "ERROR"), exc))
    ELSE Return(c, End(Log(h, "ERROR"), exc), Val("False"))

\* message.encode("utf-8"), outside any try, then publisher_client.publish(...).
publish_publish(c) ==
    /\ At(c, {"publish"}, "publish")
    /\ IF ~frame[c].argOk
       THEN Escape(c, hist[c], "AttributeError")
       ELSE \E out \in publish_outcomes :
              IF out = "ok"
              THEN Return(c, End(Log(hist[c], "INFO"), "ok"), Val("True"))
              ELSE publish_except(c, hist[c], out)
    /\ UNCHANGED <<bq, gcs, pubsub, uuid, ncalls>>
    /\ SelfUnassigned
    /\ UNCHANGED <<locator, schema>>

----------------------------------------------------------------------------
\* subscriber.py

get_subscription_outcomes == (IF pubsub.sub THEN {"ok"} ELSE {"NotFound"}) \cup {"Error"}
\* create_subscription is reached only through "publisher_client.topic_path",
\* and publisher_client is no parameter of subscribe: a NameError unless the
\* importing program happens to define a global of that name; hist.usedGlobal
\* records that the call went on with such a global.
create_subscription_outcomes ==
    (IF pubsub.sub THEN {"AlreadyExists"}
     ELSE IF pubsub.topic THEN {"ok"} ELSE {"NotFound"}) \cup {"Error", "NameError"}
subscribe_outcomes == {"ok", "Error"}
future_result_outcomes == {"ok", "KeyboardInterrupt", "Error"}

\* subscriber_client.get_subscription(subscription_path), bare "except:".
subscribe_get_subscription(c) ==
    /\ At(c, {"subscribe"}, "get_subscription")
    /\ \E out \in get_subscription_outcomes :
         LET h == OnResource(hist[c]) IN
         IF out = "ok"
         THEN Goto(c, "subscribe", [Log(h, "DEBUG") EXCEPT !.confirmed = hist[c].created])
         ELSE Goto(c, "create_subscription", IF out = "Error" THEN Fault(h) ELSE h)
    /\ UNCHANGED <<bq, gcs, pubsub, uuid, ncalls>>
    /\ SelfUnassigned
    /\ UNCHANGED <<locator, schema>>

\* topic_path = publisher_client.topic_path(...);
\* subscriber_client.create_subscription(subscription_path, topic_path),
\* inside the except clause: whatever is raised leaves subscribe.
subscribe_create_subscription(c) ==
    /\ At(c, {"subscribe"}, "create_subscription")
    /\ \E out \in create_subscription_outcomes :
         IF out = "NameError"
         THEN /\ UNCHANGED pubsub
              /\ Escape(c, hist[c], out)
         ELSE LET h == [OnResource(hist[c]) EXCEPT !.usedGlobal = TRUE] IN
              IF out = "ok"
              THEN /\ pubsub' = [pubsub EXCEPT !.sub = TRUE]
                   /\ Goto(c, "subscribe", [Log(h, "DEBUG") EXCEPT !.created = TRUE])
              ELSE /\ UNCHANGED pubsub
                   /\ Escape(c, h, out)
    /\ UNCHANGED <<bq, gcs, uuid, ncalls>>
    /\ SelfUnassigned
    /\ UNCHANGED <<locator, schema>>

\* future = subscriber_client.subscribe(subscription_path, callback), outside any try.
subscribe_subscribe(c) ==
    /\ At(c, {"subscribe"}, "subscribe")
    /\ \E out \in subscribe_outcomes :
         IF out = "ok"
         THEN /\ pubsub' = [pubsub EXCEPT !.receiving = @ \cup {c}]
              /\ Goto(c, "future_result", hist[c])
         ELSE /\ UNCHANGED pubsub
              /\ Escape(c, hist[c], out)
    /\ UNCHANGED <<bq, gcs, uuid, ncalls>>
    /\ SelfUnassigned
    /\ UNCHANGED <<locator, schema>>

\* Faulty variant of future_cancel: the handler returns without cancelling.
future_cancel_Skipped(c) == pubsub

\* future.cancel(): the streaming pull of this call is shut down.
future_cancel(c) == [pubsub EXCEPT !.receiving = @ \ {c}]

\* future.result(): returns when the delivery ends; "except KeyboardInterrupt:
\* future.cancel()"; any other exception leaves subscribe with the receive
\* operation as the client left it.
subscribe_future_result(c) ==
    /\ At(c, {"subscribe"}, "future_result")
    /\ \E out \in future_result_outcomes :
         CASE out = "ok" ->
                /\ pubsub' = [pubsub EXCEPT !.receiving = @ \ {c}]
                /\ Return(c, End(hist[c], "ok"), Val("None"))
           [] out = "KeyboardInterrupt" ->
                /\ pubsub' = future_cancel(c)
                /\ Return(c, End(hist[c], "KeyboardInterrupt"), Val("None"))
           [] OTHER ->
                /\ pubsub' = [pubsub EXCEPT !.receiving = @ \ {c}]
                /\ Escape(c, hist[c], out)
    /\ UNCHANGED <<bq, gcs, uuid, ncalls>>
    /\ SelfUnassigned
    /\ UNCHANGED <<locator, schema>>

----------------------------------------------------------------------------
\* bq.py

\* self.create_table(table=bigquery_table): Conflict when the table exists,
\* NotFound when the dataset does not.
create_table_outcomes ==
    (IF ~bq.dataset THEN {"NotFound"}
     ELSE IF bq.table THEN {"Conflict"} ELSE {"ok"}) \cup {"Error"}
\* self.get_table(table_ref) in the wait loop.
get_table_outcomes ==
    (IF bq.table THEN {"ok"} ELSE {"NotFound"})
        \cup {"Error"}

\* Faulty variant of except_Conflict: Conflict handled as any other exception.
except_Conflict_AsError(c, h) == except_Exception(c, h, "Conflict")

\* "except Conflict:" of createwait_table.
except_Conflict(c, h) == Return(c, End(Log(h, "INFO"), "Conflict"), Val("True"))

createwait_table_create_table(c) ==
    /\ At(c, {"createwait_table"}, "create_table")
    /\ \E out \in create_table_outcomes :
         LET h == OnResource(hist[c]) IN
         CASE out = "ok" ->
                /\ bq' = [bq EXCEPT !.table = TRUE]
                /\ Goto(c, "get_table", [h EXCEPT !.created = TRUE])
           [] out = "Conflict" ->
                /\ UNCHANGED bq
                /\ except_Conflict(c, h)
           [] OTHER ->
                /\ UNCHANGED bq
                /\ except_Exception(c, h, out)
    /\ UNCHANGED <<gcs, pubsub, uuid, ncalls>>
    /\ SelfUnassigned
    /\ UNCHANGED <<locator, schema>>

\* Faulty variant of createwait_table_get_table: True is returned whatever get_table answers.
createwait_table_get_table_NoWait(c) ==
    /\ At(c, {"createwait_table"}, "get_table")
    /\ \E out \in get_table_outcomes :
         Return(c, End(Log(OnResource(hist[c]), "INFO"), "ok"), Val("True"))
    /\ UNCHANGED <<bq, gcs, pubsub, uuid, ncalls>>
    /\ SelfUnassigned
    /\ UNCHANGED <<locator, schema>>

\* "while not tableExist: try: self.get_table(table_ref) ... except: time.sleep(5)".
createwait_table_get_table(c) ==
    /\ At(c, {"createwait_table"}, "get_table")
    /\ \E out \in get_table_outcomes :
         LET h == OnResource(hist[c]) IN
         IF out = "ok"
         THEN Return(c, End(Log([h EXCEPT !.confirmed = TRUE], "INFO"), "ok"), Val("True"))
         ELSE /\ hist[c].polls < MaxPolls
              /\ Goto(c, "get_table",
                      [Fault(h) EXCEPT !.polls = @ + 1, !.sleeps = Append(@, 5)])
    /\ UNCHANGED <<bq, gcs, pubsub, uuid, ncalls>>
    /\ SelfUnassigned
    /\ UNCHANGED <<locator, schema>>

\* load_table_from_uri / load_table_from_file / query / extract_table: the job
\* is submitted under a fresh "%s_%s_...-%s" % (..., uuid4()) identifier.
submit_outcomes == (IF bq.dataset THEN {"ok"} ELSE {"NotFound"}) \cup {"Error"}
\* job.result(timeout=self.timeout).
job_result_outcomes == {"ok", "Timeout", "Error"}
\* job.errors, as the job exposes it: None or a list of error records.
job_errors == {"None", "errs"}

\* Faulty variant of uuid4: the value drawn before is drawn again.
uuid4_Repeats == IF uuid = 0 THEN 1 ELSE uuid

\* str(uuid.uuid4()) in the job_id of the attempt: a value not drawn before.
uuid4 == uuid + 1

job_submit(c) ==
    /\ At(c, WarehouseJobs, "submit")
    /\ uuid' = uuid4
    /\ \E out \in submit_outcomes :
         IF out = "ok"
         THEN /\ bq' = [bq EXCEPT !.jobs = @ \cup {uuid'}]
              /\ Update(c, [frame[c] EXCEPT !.pc = "result", !.job = uuid'],
                        [hist[c] EXCEPT !.submits = Append(@, uuid')], result[c])
         ELSE /\ UNCHANGED bq
              /\ except_Exception(c, hist[c], out)
    /\ UNCHANGED <<gcs, pubsub, ncalls>>
    /\ SelfUnassigned
    /\ UNCHANGED <<locator, schema>>

\* Faulty variant of except_TimeoutError: a timeout handled as any other exception.
except_TimeoutError_AsError(c, h, errs) == except_Exception(c, h, "Timeout")

\* "except concurrent.futures.TimeoutError as e:" logs WARNING; the INFO line
\* and "return (job_id, job.errors)" follow as after a completed wait.
except_TimeoutError(c, h, errs) ==
    Return(c, End(Log(Log(h, "WARNING"), "INFO"), "Timeout"), Pair(frame[c].job, errs))

\* The wait for the job: a TimeoutError is logged and the pair returned all the
\* same; any other exception reaches "except Exception" and the call recurses.
job_result(c) ==
    /\ At(c, WarehouseJobs, "result")
    /\ \E out \in job_result_outcomes, errs \in job_errors :
         CASE out = "ok" ->
                /\ errs = "None"
                /\ Return(c, End(Log(hist[c], "INFO"), "ok"), Pair(frame[c].job, errs))
           [] out = "Timeout" ->
                except_TimeoutError(c, hist[c], errs)
           [] OTHER ->
                /\ errs = "None"
                /\ except_Exception(c, hist[c], out)
    /\ UNCHANGED <<bq, gcs, pubsub, uuid, ncalls>>
    /\ SelfUnassigned
    /\ UNCHANGED <<locator, schema>>

----------------------------------------------------------------------------
\* storage.py.  "in" is the object named by gsPath / gsPathIn, "out" the one
\* named by newName; gsPathOut names frame.dest, "out" or again "in".  The
\* service copies an object onto its own name as onto any other.

\* self.get_bucket(bucketName).
get_bucket_outcomes == (IF gcs.bucket THEN {"ok"} ELSE {"NotFound"}) \cup {"Error"}
\* A remote call on the object "in": NotFound when it is absent.
blob_outcomes == (IF "in" \in gcs.blobs THEN {"ok"} ELSE {"NotFound"}) \cup {"Error"}
\* blob.upload_from_filename(localPath): FileNotFoundError without the local file.
upload_outcomes == (IF gcs.local THEN {"ok"} ELSE {}) \cup {"Error"}
\* os.remove(localPath).
remove_outcomes == (IF gcs.local THEN {"ok"} ELSE {}) \cup {"Error"}
\* bucket.list_blobs(...), Blob.exists(...).
list_blobs_outcomes == {"ok", "Error"}
exists_outcomes == {"ok", "Error"}

\* extractBucketFile (gsPath.replace on a non-string raises inside the try),
\* then self.get_bucket(bucketIn).
move_file_gs_get_bucket_in(c) ==
    /\ At(c, {"move_file_gs", "copy_file_gs"}, "get_bucket_in")
    /\ IF ~frame[c].argOk
       THEN except_Exception(c, hist[c], "AttributeError")
       ELSE \E out \in get_bucket_outcomes :
              IF out = "ok" THEN Goto(c, "get_bucket_out", hist[c])
              ELSE StorageRaise(c, hist[c], out)
    /\ UNCHANGED <<bq, gcs, pubsub, uuid, ncalls>>
    /\ SelfUnassigned
    /\ UNCHANGED <<locator, schema>>

\* self.get_bucket(bucketOut).
move_file_gs_get_bucket_out(c) ==
    /\ At(c, {"move_file_gs", "copy_file_gs"}, "get_bucket_out")
    /\ \E out \in get_bucket_outcomes :
         IF out = "ok" THEN Goto(c, "copy_blob", hist[c])
         ELSE StorageRaise(c, hist[c], out)
    /\ UNCHANGED <<bq, gcs, pubsub, uuid, ncalls>>
    /\ SelfUnassigned
    /\ UNCHANGED <<locator, schema>>

\* inputBucket.copy_blob(inputBlob, outputBucket, new_name=fileNameOut);
\* without delete: log INFO and return True.
move_file_gs_copy_blob(c) ==
    /\ At(c, {"move_file_gs", "copy_file_gs"}, "copy_blob")
    /\ \E out \in blob_outcomes :
         IF out = "ok"
         THEN /\ gcs' = [gcs EXCEPT !.blobs = @ \cup {frame[c].dest}]
              /\ LET h == [hist[c] EXCEPT !.wrote = TRUE] IN
                 IF frame[c].delete
                 THEN Goto(c, "delete", h)
                 ELSE Return(c, End(Log(h, "INFO"), "ok"), Val("True"))
         ELSE /\ UNCHANGED gcs
              /\ StorageRaise(c, hist[c], out)
    /\ UNCHANGED <<bq, pubsub, uuid, ncalls>>
    /\ SelfUnassigned
    /\ UNCHANGED <<locator, schema>>

\* "if delete: inputBlob.delete()", two INFO lines, return True.
move_file_gs_delete(c) ==
    /\ At(c, {"move_file_gs", "copy_file_gs"}, "delete")
    /\ \E out \in blob_outcomes :
         IF out = "ok"
         THEN /\ gcs' = [gcs EXCEPT !.blobs = @ \ {"in"}]
              /\ Return(c, End(Log(Log(hist[c], "INFO"), "INFO"), "ok"), Val("True"))
         ELSE /\ UNCHANGED gcs
              /\ StorageRaise(c, hist[c], out)
    /\ UNCHANGED <<bq, pubsub, uuid, ncalls>>
    /\ SelfUnassigned
    /\ UNCHANGED <<locator, schema>>

download_file_from_gs_get_bucket(c) ==
    /\ At(c, {"download_file_from_gs"}, "get_bucket")
    /\ IF ~frame[c].argOk
       THEN except_Exception(c, hist[c], "AttributeError")
       ELSE \E out \in get_bucket_outcomes :
              IF out = "ok" THEN Goto(c, "get_blob", hist[c])
              ELSE StorageRaise(c, hist[c], out)
    /\ UNCHANGED <<bq, gcs, pubsub, uuid, ncalls>>
    /\ SelfUnassigned
    /\ UNCHANGED <<locator, schema>>

\* blob = bucket.get_blob(fileName); blob.download_to_filename(localPath).
\* get_blob answers None for an absent object, and the call on None raises
\* AttributeError, which is no NotFound.
download_file_from_gs_download(c) ==
    /\ At(c, {"download_file_from_gs"}, "get_blob")
    /\ \E out \in blob_outcomes :
         IF out = "ok"
         THEN /\ gcs' = [gcs EXCEPT !.local = TRUE]
              /\ Return(c, End(Log(hist[c], "INFO"), "ok"), Val("True"))
         ELSE /\ UNCHANGED gcs
              /\ except_Exception(c, hist[c],
                                  IF out = "NotFound" THEN "AttributeError" ELSE out)
    /\ UNCHANGED <<bq, pubsub, uuid, ncalls>>
    /\ SelfUnassigned
    /\ UNCHANGED <<locator, schema>>

\* upload_file_to_gs has no "except NotFound": every exception is retried.
upload_file_to_gs_get_bucket(c) ==
    /\ At(c, {"upload_file_to_gs"}, "get_bucket")
    /\ IF ~frame[c].argOk
       THEN except_Exception(c, hist[c], "AttributeError")
       ELSE \E out \in get_bucket_outcomes :
              IF out = "ok" THEN Goto(c, "upload", hist[c])
              ELSE except_Exception(c, hist[c], out)
    /\ UNCHANGED <<bq, gcs, pubsub, uuid, ncalls>>
    /\ SelfUnassigned
    /\ UNCHANGED <<locator, schema>>

\* blob.upload_from_filename(localPath).
upload_file_to_gs_upload(c) ==
    /\ At(c, {"upload_file_to_gs"}, "upload")
    /\ \E out \in upload_outcomes :
         IF out = "ok"
         THEN /\ gcs' = [gcs EXCEPT !.blobs = @ \cup {"in"}]
              /\ LET h == [hist[c] EXCEPT !.wrote = TRUE] IN
                 IF frame[c].delete
                 THEN Goto(c, "remove", h)
                 ELSE Return(c, End(Log(h, "INFO"), "ok"), Val("True"))
         ELSE /\ UNCHANGED gcs
              /\ except_Exception(c, hist[c], out)
    /\ UNCHANGED <<bq, pubsub, uuid, ncalls>>
    /\ SelfUnassigned
    /\ UNCHANGED <<locator, schema>>

\* "if delete: os.remove(localPath)", two INFO lines, return True.
upload_file_to_gs_remove(c) ==
    /\ At(c, {"upload_file_to_gs"}, "remove")
    /\ \E out \in remove_outcomes :
         IF out = "ok"
         THEN /\ gcs' = [gcs EXCEPT !.local = FALSE]
              /\ Return(c, End(Log(Log(hist[c], "INFO"), "INFO"), "ok"), Val("True"))
         ELSE /\ UNCHANGED gcs
              /\ except_Exception(c, hist[c], out)
    /\ UNCHANGED <<bq, pubsub, uuid, ncalls>>
    /\ SelfUnassigned
    /\ UNCHANGED <<locator, schema>>

delete_file_from_gs_get_bucket(c) ==
    /\ At(c, {"delete_file_from_gs"}, "get_bucket")
    /\ IF ~frame[c].argOk
       THEN except_Exception(c, hist[c], "AttributeError")
       ELSE \E out \in get_bucket_outcomes :
              IF out = "ok" THEN Goto(c, "delete", hist[c])
              ELSE StorageRaise(c, hist[c], out)
    /\ UNCHANGED <<bq, gcs, pubsub, uuid, ncalls>>
    /\ SelfUnassigned
    /\ UNCHANGED <<locator, schema>>

\* blob.delete().
delete_file_from_gs_delete(c) ==
    /\ At(c, {"delete_file_from_gs"}, "delete")
    /\ \E out \in blob_outcomes :
         IF out = "ok"
         THEN /\ gcs' = [gcs EXCEPT !.blobs = @ \ {"in"}]
              /\ Return(c, End(Log(hist[c], "INFO"), "ok"), Val("True"))
         ELSE /\ UNCHANGED gcs
              /\ StorageRaise(c, hist[c], out)
    /\ UNCHANGED <<bq, pubsub, uuid, ncalls>>
    /\ SelfUnassigned
    /\ UNCHANGED <<locator, schema>>

\* file_exist_gs: when extractBucketFile itself raises, the handler's message
\* reads fileName, which was never bound: the UnboundLocalError leaves the call.
file_exist_gs_get_bucket(c) ==
    /\ At(c, {"file_exist_gs"}, "get_bucket")
    /\ IF ~frame[c].argOk
       THEN Escape(c, hist[c], "UnboundLocalError")
       ELSE \E out \in get_bucket_outcomes :
              IF out = "ok" THEN Goto(c, "exists", hist[c])
              ELSE except_Single(c, hist[c], out)
    /\ UNCHANGED <<bq, gcs, pubsub, uuid, ncalls>>
    /\ SelfUnassigned
    /\ UNCHANGED <<locator, schema>>

\* stat = storage.Blob(bucket=bucket, name=fileName).exists(self).
file_exist_gs_exists(c) ==
    /\ At(c, {"file_exist_gs"}, "exists")
    /\ \E out \in exists_outcomes :
         IF out = "ok"
         THEN Return(c, End(Log(hist[c], "INFO"), "ok"),
                     Val(IF "in" \in gcs.blobs THEN "True" ELSE "False"))
         ELSE except_Single(c, hist[c], out)
    /\ UNCHANGED <<bq, gcs, pubsub, uuid, ncalls>>
    /\ SelfUnassigned
    /\ UNCHANGED <<locator, schema>>

rename_gs_get_bucket(c) ==
    /\ At(c, {"rename_gs"}, "get_bucket")
    /\ IF ~frame[c].argOk
       THEN except_Single(c, hist[c], "AttributeError")
       ELSE \E out \in get_bucket_outcomes :
              IF out = "ok" THEN Goto(c, "rename_blob", hist[c])
              ELSE except_Single(c, hist[c], out)
    /\ UNCHANGED <<bq, gcs, pubsub, uuid, ncalls>>
    /\ SelfUnassigned
    /\ UNCHANGED <<locator, schema>>

\* bucket.rename_blob(inputBlob, newName); returns the new full path.
rename_gs_rename_blob(c) ==
    /\ At(c, {"rename_gs"}, "rename_blob")
    /\ \E out \in blob_outcomes :
         IF out = "ok"
         THEN /\ gcs' = [gcs EXCEPT !.blobs = (@ \ {"in"}) \cup {"out"}]
              /\ Return(c, End(Log(hist[c], "INFO"), "ok"), Val("path"))
         ELSE /\ UNCHANGED gcs
              /\ except_Single(c, hist[c], out)
    /\ UNCHANGED <<bq, pubsub, uuid, ncalls>>
    /\ SelfUnassigned
    /\ UNCHANGED <<locator, schema>>

\* "if gsPath[-1] != '/'" raises inside the try for a non-string or empty path.
list_files_from_gs_get_bucket(c) ==
    /\ At(c, {"list_files_from_gs"}, "get_bucket")
    /\ IF ~frame[c].argOk
       THEN except_Single(c, hist[c], "AttributeError")
       ELSE \E out \in get_bucket_outcomes :
              IF out = "ok" THEN Goto(c, "list_blobs", hist[c])
              ELSE except_Single(c, hist[c], out)
    /\ UNCHANGED <<bq, gcs, pubsub, uuid, ncalls>>
    /\ SelfUnassigned
    /\ UNCHANGED <<locator, schema>>

\* bucket.list_blobs(prefix=fileName, ...); returns the list of paths.
list_files_from_gs_list_blobs(c) ==
    /\ At(c, {"list_files_from_gs"}, "list_blobs")
    /\ \E out \in list_blobs_outcomes :
         IF out = "ok"
         THEN Return(c, End(Log(hist[c], "INFO"), "ok"), Val("list"))
         ELSE except_Single(c, hist[c], out)
    /\ UNCHANGED <<bq, gcs, pubsub, uuid, ncalls>>
    /\ SelfUnassigned
    /\ UNCHANGED <<locator, schema>>

----------------------------------------------------------------------------
----------------------------------------------------------------------------
\* storage.py, extractBucketFile: strings are sequences of characters.

Alphabet == {"g", "s", ":", "/", "a"}
Scheme == <<"g", "s", ":", "/", "/">>
Slash == <<"/">>

\* The strings over the characters al of lo to hi characters.
Strings(al, lo, hi) == UNION {[1..n -> al] : n \in lo..hi}

\* s.replace("gs://", ""): every occurrence, from the left, without overlap.
RECURSIVE replace(_)
replace(s) ==
    IF Len(s) < Len(Scheme) THEN s
    ELSE IF SubSeq(s, 1, Len(Scheme)) = Scheme
         THEN replace(SubSeq(s, Len(Scheme) + 1, Len(s)))
         ELSE <<Head(s)>> \o replace(Tail(s))

\* s.split("/")[0]: what precedes the first "/", all of s if there is none.
RECURSIVE split_first(_)
split_first(s) ==
    IF s = <<>> \/ Head(s) = "/" THEN <<>>
    ELSE <<Head(s)>> \o split_first(Tail(s))

\* s[k:], k counted from 0.
slice_from(s, k) == IF k >= Len(s) THEN <<>> ELSE SubSeq(s, k + 1, Len(s))

\* Faulty variant of extractBucketFile: the slice starts one character early.
extractBucketFile_SliceEarly(gsPath) ==
    LET bucket == split_first(replace(gsPath)) IN
    <<bucket, slice_from(gsPath, Len(bucket) + 5)>>

\* bucket = gsPath.replace("gs://", "").split("/")[0];
\* filePath = gsPath[len(bucket) + 6 :]; return bucket, filePath.
extractBucketFile(gsPath) ==
    LET bucket == split_first(replace(gsPath)) IN
    <<bucket, slice_from(gsPath, Len(bucket) + 6)>>

\* The locator "gs://" + container + "/" + item.
Locator(container, item) == Scheme \o container \o Slash \o item

\* The locators extractBucketFile is given: a container name without "/" and
\* not empty, and any item path.
InitLocator ==
    /\ bq = [dataset |-> TRUE, table |-> FALSE, jobs |-> {}]
    /\ gcs = [bucket |-> TRUE, blobs |-> {"in"}, local |-> TRUE]
    /\ pubsub = [topic |-> FALSE, sub |-> FALSE, receiving |-> {}]
    /\ uuid = 0
    /\ frame = [c \in Callers |-> IdleFrame]
    /\ result = [c \in Callers |-> Running]
    /\ hist = [c \in Callers |-> NoHist]
    /\ ncalls = [c \in Callers |-> 0]
    /\ config = [logger |-> "logger", labels |-> "{}", timeout |-> DefaultTimeout]
    /\ schema = NoSchema
    /\ \E container \in Strings(Alphabet \ {"/"}, 1, MaxContainerLen),
          item \in Strings(Alphabet, 0, MaxItemLen) :
         locator = [NoLocator EXCEPT !.pc = "call", !.container = container, !.item = item]

\* Etlstorage.extractBucketFile(gsPath) runs and returns its pair.
extractBucketFile_call ==
    /\ locator.pc = "call"
    /\ LET r == extractBucketFile(Locator(locator.container, locator.item)) IN
       locator' = [locator EXCEPT !.pc = "returned", !.bucket = r[1], !.filePath = r[2]]
    /\ UNCHANGED <<facade, schema>>

NextLocator == extractBucketFile_call

SpecLocator == InitLocator /\ [][NextLocator]_vars

----------------------------------------------------------------------------
\* bq.py, build_schema_from_dict.  A dictionary is the sequence of its entries
\* in insertion order; the value of an entry is a string (kind "str", the
\* column type) or a nested dictionary (kind "dict", its entries in items).

Keys == {"a", "b", "c"}
Types == {"STRING", "INTEGER"}

StrEntry(k, t) == [key |-> k, kind |-> "str", type |-> t, items |-> <<>>]
DictEntry(k, d) == [key |-> k, kind |-> "dict", type |-> "", items |-> d]

\* The dictionaries of at most MaxFields entries with the given entries, no
\* key twice.
Dicts(entries) ==
    {d \in UNION {[1..n -> entries] : n \in 0..MaxFields} :
        \A i, j \in 1..Len(d) : i # j => d[i].key # d[j].key}

FlatDicts == Dicts({StrEntry(k, t) : k \in Keys, t \in Types})
NestedDicts ==
    Dicts({StrEntry(k, t) : k \in Keys, t \in Types}
          \cup {DictEntry(k, d) : k \in Keys, d \in FlatDicts})

\* bigquery.SchemaField(name, field_type, mode, fields=...).
SchemaField(name, field_type, mode, fields) ==
    [name |-> name, field_type |-> field_type, mode |-> mode, fields |-> fields]

\* bq.py neither imports nor defines the name "unicode", and Python 3 has no
\* such builtin: evaluating "isinstance(v, unicode)" raises NameError.
unicode_defined == FALSE

\* The loop "for k, v in schema_dict.items()" with schema_bq built so far, and
\* the log lines written.  "isinstance(v, str) or isinstance(v, unicode)": the
\* second test is evaluated only where the first is False, and its NameError
\* is caught by "except Exception", which logs ERROR and returns schema_bq as
\* far as it was built.  The nested call of the RECORD branch writes its own
\* INFO line before the outer loop goes on.
RECURSIVE schema_loop(_, _, _)
schema_loop(d, schema_bq, log) ==
    IF d = <<>> THEN [schema_bq |-> schema_bq, log |-> Append(log, "INFO")]
    ELSE LET e == Head(d) IN
         IF e.kind = "str"
         THEN schema_loop(Tail(d),
                          Append(schema_bq, SchemaField(e.key, e.type, "NULLABLE", <<>>)),
                          log)
         ELSE IF ~unicode_defined
         THEN [schema_bq |-> schema_bq, log |-> Append(log, "ERROR")]
         ELSE LET sub == schema_loop(e.items, <<>>, log) IN
              schema_loop(Tail(d),
                          Append(schema_bq,
                                 SchemaField(e.key, "RECORD", "NULLABLE", sub.schema_bq)),
                          sub.log)

\* build_schema_from_dict(schema_dict) with mode_fields left at "NULLABLE".
build_schema_from_dict(schema_dict) == schema_loop(schema_dict, <<>>, <<>>)

InitSchema ==
    /\ bq = [dataset |-> TRUE, table |-> FALSE, jobs |-> {}]
    /\ gcs = [bucket |-> TRUE, blobs |-> {"in"}, local |-> TRUE]
    /\ pubsub = [topic |-> FALSE, sub |-> FALSE, receiving |-> {}]
    /\ uuid = 0
    /\ frame = [c \in Callers |-> IdleFrame]
    /\ result = [c \in Callers |-> Running]
    /\ hist = [c \in Callers |-> NoHist]
    /\ ncalls = [c \in Callers |-> 0]
    /\ config = [logger |-> "logger", labels |-> "{}", timeout |-> DefaultTimeout]
    /\ locator = NoLocator
    /\ \E d \in NestedDicts : schema = [NoSchema EXCEPT !.pc = "call", !.schema_dict = d]

\* Etlbq.build_schema_from_dict(schema_dict) runs and returns schema_bq.
build_schema_from_dict_call ==
    /\ schema.pc = "call"
    /\ LET r == build_schema_from_dict(schema.schema_dict) IN
       schema' = [schema EXCEPT !.pc = "returned", !.schema_bq = r.schema_bq, !.log = r.log]
    /\ UNCHANGED <<facade, locator>>

NextSchema == build_schema_from_dict_call

SpecSchema == InitSchema /\ [][NextSchema]_vars

----------------------------------------------------------------------------
Next ==
    \E c \in {Main} :
        \/ Call(c)
        \/ publish_get_topic(c)
        \/ publish_create_topic(c)
        \/ publish_publish(c)
        \/ subscribe_get_subscription(c)
        \/ subscribe_create_subscription(c)
        \/ subscribe_subscribe(c)
        \/ subscribe_future_result(c)
        \/ createwait_table_create_table(c)
        \/ createwait_table_get_table(c)
        \/ job_submit(c)
        \/ job_result(c)
        \/ move_file_gs_get_bucket_in(c)
        \/ move_file_gs_get_bucket_out(c)
        \/ move_file_gs_copy_blob(c)
        \/ move_file_gs_delete(c)
        \/ download_file_from_gs_get_bucket(c)
        \/ download_file_from_gs_download(c)
        \/ upload_file_to_gs_get_bucket(c)
        \/ upload_file_to_gs_upload(c)
        \/ upload_file_to_gs_remove(c)
        \/ delete_file_from_gs_get_bucket(c)
        \/ delete_file_from_gs_delete(c)
        \/ file_exist_gs_get_bucket(c)
        \/ file_exist_gs_exists(c)
        \/ rename_gs_get_bucket(c)
        \/ rename_gs_rename_blob(c)
        \/ list_files_from_gs_get_bucket(c)
        \/ list_files_from_gs_list_blobs(c)

Spec == Init /\ [][Next]_vars

\* Two callers running the creation operations against the same services.
CallCreation(c) == \E o \in CreationOps : Invoke(c, o, FALSE, TRUE, "out")

NextRace ==
    \E c \in Callers :
        \/ CallCreation(c)
        \/ publish_get_topic(c)
        \/ publish_create_topic(c)
        \/ publish_publish(c)
        \/ subscribe_get_subscription(c)
        \/ subscribe_create_subscription(c)
        \/ subscribe_subscribe(c)
        \/ subscribe_future_result(c)
        \/ createwait_table_create_table(c)
        \/ createwait_table_get_table(c)

SpecRace == Init /\ [][NextRace]_vars
----------------------------------------------------------------------------
\* Properties.

Done(c) == frame[c].pc = "done"
Last(q) == q[Len(q)]
\* The attempts of the current call that ended in an exception of class exc.
EndedBy(c, exc) == {i \in 1..Len(hist[c].ends) : hist[c].ends[i] = exc}
\* The ends of an attempt that are no failure, and the two exception classes the
\* retry convention names apart; every other end is a fault.
IsFault(e) ==
    e \notin {"ok", "Timeout", "KeyboardInterrupt", "NotFound", "AlreadyExists", "Conflict"}
\* The attempts of the current call that ended in a fault.
Faulted(c) == {i \in 1..Len(hist[c].ends) : IsFault(hist[c].ends[i])}
\* Every attempt so far ended in a fault that is neither NotFound nor AlreadyExists.
OnlyFaults(c) == Faulted(c) = 1..Len(hist[c].ends)

\* C1: no facade call lets an exception reach its caller: every call resolves
\* to its success value or to its failure sentinel.
C1_NoExceptionEscapes == \A c \in Callers : result[c] # Raised

\* C2: a call of a retry-wrapped operation, started with retry = 0, whose every
\* attempt fails with a fault that is neither NotFound nor AlreadyExists, makes
\* exactly Ceiling + 1 attempts and returns the failure sentinel.
C2_FaultOnEveryAttempt ==
    \A c \in Callers :
        (frame[c].op \in RetryOps /\ Done(c) /\ OnlyFaults(c))
            => /\ hist[c].attempts = Ceiling(frame[c].op) + 1
               /\ result[c] = Sentinel(frame[c].op)

\* C3: in every retry-wrapped operation an attempt that fails with NotFound is
\* the last one: no sleep and no further attempt follow it, one WARNING line is
\* logged for it and the failure sentinel is returned.
C3_NotFoundIsTerminal ==
    \A c \in Callers :
        frame[c].op \in RetryOps =>
            \A i \in EndedBy(c, "NotFound") :
                /\ i = Len(hist[c].ends)
                /\ Done(c)
                /\ hist[c].attempts = i
                /\ Len(hist[c].sleeps) = i - 1
                /\ Last(hist[c].log) = "WARNING"
                /\ result[c] = Sentinel(frame[c].op)

\* Where a creation operation is once its resource is ensured.
Proceeded(c) ==
    CASE frame[c].op = "createwait_table" -> Done(c) /\ result[c] = Val("True")
      [] frame[c].op = "publish" -> frame[c].pc \in {"publish", "done"}
      [] OTHER -> frame[c].pc \in {"subscribe", "future_result", "done"}

C5_RaceLoserSucceeds ==
    \A c \in Callers :
        (frame[c].op \in CreationOps /\ ~hist[c].existed /\ hist[c].faults = 0 /\ Done(c))
            => ~(result[c] = Raised /\ Last(hist[c].ends) \in {"AlreadyExists", "Conflict"})

C7_TimeoutIsNotFailure ==
    \A c \in Callers :
        LET n == Len(hist[c].ends) IN
        (frame[c].op \in WarehouseJobs /\ n >= 1 /\ hist[c].ends[n] = "Timeout")
            => /\ Done(c)
               /\ hist[c].attempts = n
               /\ frame[c].retry = n - 1
               /\ Len(hist[c].sleeps) = n - 1
               /\ Len(hist[c].log) = n + 1
               /\ hist[c].log[n] = "WARNING"
               /\ result[c].val = "pair"
               /\ result[c].job # 0
               /\ result[c].job = Last(hist[c].submits)
               /\ result[c].errors \in job_errors

\* C7's case: the first wait timed out and the job exposed an error list.
C7_Witness ==
    \E c \in Callers :
        /\ frame[c].op = "run_queryjob" /\ Done(c)
        /\ hist[c].ends = <<"Timeout">>
        /\ result[c].errors = "errs"

Caught(c, i) == ~(i = Len(hist[c].ends) /\ result[c] = Raised)

C9_OneFixedSleepPerRetry ==
    \A c \in Callers :
        frame[c].op \in RetryOps =>
            LET n == Cardinality({i \in Faulted(c) : i - 1 < Ceiling(frame[c].op)}) IN
            /\ Len(hist[c].sleeps) = n + hist[c].polls
            /\ \A j \in 1..Len(hist[c].sleeps) : hist[c].sleeps[j] = Delay(frame[c].op)
            /\ hist[c].attempts = n + 1
            /\ frame[c].retry = n

\* C10 as stated: a creation operation that created its resource goes on, or
\* returns success, only after a separate existence check succeeded.
C10_CreationIsConfirmed ==
    \A c \in Callers :
        (frame[c].op \in CreationOps /\ hist[c].created /\ Proceeded(c))
            => hist[c].confirmed

\* C10 as amended: createwait_table returns True for a table it created only
\* after get_table succeeded; publish and subscribe go on right after
\* create_topic / create_subscription returned, with no existence check.
C10_OnlyTableIsConfirmed ==
    \A c \in Callers :
        /\ (frame[c].op = "createwait_table" /\ hist[c].created /\ Done(c)) =>
              /\ hist[c].confirmed
              /\ hist[c].resCalls >= 2
              /\ result[c] = Val("True")
        /\ (frame[c].op \in {"publish", "subscribe"} /\ hist[c].created /\ frame[c].retry = 0) =>
              /\ ~hist[c].confirmed
              /\ hist[c].resCalls = 2
              /\ Proceeded(c)

\* C10's case: createwait_table created the table, polled get_table through a
\* failure and returned True.
C10_Witness ==
    \E c \in Callers :
        /\ frame[c].op = "createwait_table" /\ Done(c)
        /\ hist[c].created /\ hist[c].confirmed /\ hist[c].polls >= 1
        /\ result[c] = Val("True")

\* C11: in a call started with retry = 0 the counter of every invocation lies in
\* 0..Ceiling, it is one more than that of the invocation before (the n-th
\* invocation runs with n - 1), and a new top-level call starts again with 0
\* whatever the call before it reached.
C11_CounterBoundedAndReset ==
    \A c \in Callers :
        frame[c].op \in RetryOps =>
            /\ frame[c].retry \in 0..Ceiling(frame[c].op)
            /\ frame[c].retry = hist[c].attempts - 1
            /\ hist[c].ends = <<>> => frame[c].retry = 0

\* C11's case: a caller's second call has gone through two retries and made
\* its last invocation with the counter at the ceiling of publish.
C11_Witness ==
    \E c \in Callers :
        /\ ncalls[c] = 2
        /\ frame[c].op = "publish" /\ Done(c)
        /\ frame[c].retry = 2
        /\ hist[c].attempts = 3

\* The log lines written by the invocation that ended the call: hist.mark is the
\* length of the log when that invocation began.
TerminalLines(c) == Len(hist[c].log) - hist[c].mark

Severities == {"DEBUG", "INFO", "WARNING", "ERROR"}

ExpectedLines(c) ==
    IF frame[c].op = "publish" THEN 2
    ELSE IF Last(hist[c].ends) = "Timeout" THEN 2
    ELSE IF frame[c].op \in DeleteFlagOps /\ frame[c].delete /\ Last(hist[c].ends) = "ok" THEN 2
    ELSE 1

Lines(n, sev) == [i \in 1..n |-> sev]

\* The log without the DEBUG lines.
RECURSIVE AboveDebug(_)
AboveDebug(q) ==
    IF q = <<>> THEN <<>>
    ELSE IF Head(q) = "DEBUG" THEN AboveDebug(Tail(q))
    ELSE <<Head(q)>> \o AboveDebug(Tail(q))

\* C13: in an operation that retries, an ERROR line is written by the last
\* permitted attempt only (never while the counter is below the ceiling), and
\* a call whose every attempt met a fault has logged Ceiling WARNING lines
\* followed by one ERROR line.
C13_WarningsThenOneError ==
    \A c \in Callers :
        frame[c].op \in RetryOps =>
            /\ \A i \in 1..Len(hist[c].log) :
                   hist[c].log[i] = "ERROR" =>
                       /\ i = Len(hist[c].log)
                       /\ frame[c].retry = Ceiling(frame[c].op)
            /\ ( /\ Done(c) /\ result[c] # Raised
                 /\ OnlyFaults(c)
                 /\ hist[c].attempts = Ceiling(frame[c].op) + 1 )
               => AboveDebug(hist[c].log)
                      = Lines(Ceiling(frame[c].op), "WARNING") \o <<"ERROR">>

\* C14: a call of subscribe has a receive operation outstanding exactly while it
\* is blocked in future.result(), and once it has returned after a
\* KeyboardInterrupt it has returned None and left no receive operation behind.
C14_CancelledOnInterrupt ==
    \A c \in Callers :
        /\ c \in pubsub.receiving <=> At(c, {"subscribe"}, "future_result")
        /\ ( /\ frame[c].op = "subscribe" /\ Done(c)
             /\ hist[c].ends # <<>> /\ Last(hist[c].ends) = "KeyboardInterrupt" )
           => /\ c \notin pubsub.receiving
              /\ result[c] = Val("None")

\* C14's case: subscribe created its subscription, received, and has returned
\* after the interrupt.
C14_Witness ==
    \E c \in Callers :
        /\ frame[c].op = "subscribe" /\ Done(c)
        /\ hist[c].created
        /\ hist[c].ends = <<"KeyboardInterrupt">>
        /\ result[c] = Val("None")

\* C15: whenever subscribe has started to receive, the subscription exists, and
\* if it did not exist when the call began the call has created it, from
\* nothing but its own arguments.
C15_SubscriptionFromArguments ==
    \A c \in Callers :
        At(c, {"subscribe"}, "future_result") =>
            /\ pubsub.sub
            /\ ~hist[c].existed => hist[c].created
            /\ ~hist[c].usedGlobal

\* C16: in every invocation of publish, retries included, the publish remote call
\* is reached only after get_topic or create_topic has returned in that same
\* invocation (hist.ensured is cleared by every re-invocation), the topic exists
\* then, and publish has returned True only after a publish remote call
\* succeeded in an invocation that had ensured the topic.
C16_TopicEnsuredInEveryAttempt ==
    \A c \in Callers :
        frame[c].op = "publish" =>
            /\ frame[c].pc = "publish" => hist[c].ensured /\ pubsub.topic
            /\ result[c] = Val("True") =>
                   /\ Done(c) /\ hist[c].ensured
                   /\ Last(hist[c].ends) = "ok"

\* C16's case: publish created the topic in its first invocation, failed to
\* publish, found the topic again in the retry and returned True.
C16_Witness ==
    \E c \in Callers :
        /\ frame[c].op = "publish" /\ Done(c)
        /\ result[c] = Val("True")
        /\ frame[c].retry = 1
        /\ hist[c].created /\ hist[c].confirmed
        /\ hist[c].resCalls = 3

\* C17: copy_file_gs runs move_file_gs with delete = False: in no invocation,
\* retries included, does it come to the deletion of the source blob, and the
\* source object is present or absent as it was when the call began, whether
\* the copy has succeeded or failed.
C17_CopyKeepsSource ==
    \A c \in Callers :
        frame[c].op = "copy_file_gs" =>
            /\ ~frame[c].delete
            /\ frame[c].pc # "delete"
            /\ ("in" \in gcs.blobs) = hist[c].srcBefore

\* C17's case: copy_file_gs has copied the object in a retry and returned.
C17_Witness ==
    \E c \in Callers :
        /\ frame[c].op = "copy_file_gs" /\ Done(c)
        /\ frame[c].retry >= 1
        /\ hist[c].wrote /\ result[c] = Val("True")
        /\ {"in", "out"} \subseteq gcs.blobs

\* C18: upload_file_to_gs, move_file_gs and copy_file_gs return True exactly when
\* the call has uploaded or copied the object: a call that has returned False
\* has not put the object at the destination, delete = True included.
C18_ResultReportsEffect ==
    \A c \in Callers :
        ( /\ frame[c].op \in {"upload_file_to_gs", "move_file_gs", "copy_file_gs"}
          /\ Done(c) /\ result[c] # Raised )
        => (result[c] = Val("True") <=> hist[c].wrote)

\* C19: no step of any operation changes what the constructor stored in the
\* instance (logger, label set, timeout): the configuration read by one call is
\* the one every later call and every other caller reads.
C19_ConfigurationIsConstant == [][config' = config]_vars

\* C19's case: a second call has completed on the instance, after a first one
\* that went through retries, with a label set given at construction.
C19_Witness ==
    \E c \in Callers :
        /\ ncalls[c] = 2 /\ Done(c)
        /\ hist[c].attempts >= 2
        /\ config.labels = "labels" /\ config.timeout = DefaultTimeout

\* The pair extractBucketFile returned is the container and the item path the
\* locator was built from, and rebuilds the locator.
RoundTrip ==
    /\ locator.bucket = locator.container
    /\ locator.filePath = locator.item
    /\ Locator(locator.bucket, locator.filePath) = Locator(locator.container, locator.item)

\* The container name ends with "gs:".
EndsWithScheme(container) ==
    /\ Len(container) >= 3
    /\ SubSeq(container, Len(container) - 2, Len(container)) = <<"g", "s", ":">>

\* C20 as claimed: for every locator "gs://" + container + "/" + item, the
\* container not empty and without "/", extractBucketFile returns
\* (container, item) and the locator rebuilt from the pair is the original.
C20_RoundTrip == locator.pc = "returned" => RoundTrip

\* C20 as the code has it: the same, for every such locator except those
\* whose container ends with "gs:" while the item path begins with "/"; there
\* replace("gs://", "") finds a second "gs://" across the separator.
C20_RoundTripOneScheme ==
    ( /\ locator.pc = "returned"
      /\ ~(EndsWithScheme(locator.container)
           /\ locator.item # <<>> /\ Head(locator.item) = "/") )
    => RoundTrip

\* C20's case: extractBucketFile has returned for a locator whose item path
\* holds a second "/" and whose container ends with ":" (but not "gs:").
C20_Witness ==
    /\ locator.pc = "returned"
    /\ locator.container = <<"a", "s", ":">>
    /\ locator.item = <<"/", "a">>
    /\ RoundTrip

\* C21: build_schema_from_dict returns one field per key of the dictionary,
\* named after the key; a string value gives a field of that type, and a
\* nested dictionary gives a RECORD field with one sub-field per key of the
\* nested dictionary.
C21_NestedMapBecomesRecord ==
    schema.pc = "returned" =>
        /\ Len(schema.schema_bq) = Len(schema.schema_dict)
        /\ \A i \in 1..Len(schema.schema_dict) :
               i <= Len(schema.schema_bq) =>
                   LET e == schema.schema_dict[i]
                       f == schema.schema_bq[i]
                   IN /\ f.name = e.key
                      /\ e.kind = "str" => f.field_type = e.type
                      /\ e.kind = "dict" =>
                             /\ f.field_type = "RECORD"
                             /\ Len(f.fields) = Len(e.items)

\* The remote calls the retry convention allows one call of createwait_table:
\* one create_table and one get_table in each of Ceiling + 1 invocations.
CallBudget(o) == 2 * (Ceiling(o) + 1)

\* C22: the remote calls made by one call of createwait_table are bounded by
\* the retry ceiling, whatever create_table and get_table answer: so the call
\* returns after at most that many calls.
C22_CreatewaitCallsBounded ==
    \A c \in Callers :
        frame[c].op = "createwait_table" =>
            hist[c].resCalls <= CallBudget("createwait_table")

\* C23: in every state of a call of move_file_gs or copy_file_gs that found
\* the object at the source when it began, the object is at the source or at
\* the destination, and the deletion of the source is reached only in an
\* invocation whose copy succeeded.
C23_MoveKeepsTheObject ==
    \A c \in Callers :
        frame[c].op \in TransferOps /\ hist[c].srcBefore =>
            /\ "in" \in gcs.blobs \/ frame[c].dest \in gcs.blobs
            /\ frame[c].pc = "delete" => hist[c].wrote

\* C24: one call of insert_file, run_queryjob or run_extractjob submits at
\* most one job: after a submission that succeeded no retry of the call
\* submits again.
C24_OneJobPerCall ==
    \A c \in Callers :
        frame[c].op \in WarehouseJobs => Len(hist[c].submits) <= 1

\* A submission that has just succeeded used an identifier under which no job
\* was submitted before, in this call or in an earlier one.
FreshSubmit(c) ==
    Len(hist'[c].submits) = Len(hist[c].submits) + 1 =>
        Last(hist'[c].submits) \notin bq.jobs

\* The identifier a call has returned is that of the job its last invocation
\* submitted, and of none of the jobs submitted before it.
ReturnsLastSubmitted(c) ==
    ( /\ frame[c].op \in WarehouseJobs /\ Done(c)
      /\ result[c].val = "pair" /\ result[c].job # 0 )
    => /\ hist[c].submits # <<>>
       /\ Len(hist[c].submits) <= hist[c].attempts
       /\ result[c].job = Last(hist[c].submits)
       /\ \A i \in 1..(Len(hist[c].submits) - 1) : hist[c].submits[i] # result[c].job

\* C25: every attempt of insert_file, run_queryjob and run_extractjob submits
\* under an identifier not used by any attempt before it, of the same call or
\* of another, and the identifier returned with a success is that of the job
\* submitted by the last attempt, never that of an earlier attempt.
C25_FreshJobIdentifiers ==
    [][\A c \in Callers : FreshSubmit(c) /\ ReturnsLastSubmitted(c)']_vars

\* C25's case: the second call of a caller has returned the identifier of the
\* second job it submitted, the third job of the run.
C25_Witness ==
    \E c \in Callers :
        /\ ncalls[c] = 2
        /\ frame[c].op \in WarehouseJobs /\ Done(c)
        /\ Len(hist[c].submits) = 2
        /\ result[c].job = hist[c].submits[2]
        /\ Cardinality(bq.jobs) = 3
====
